---- MODULE Spec2Model ----
(***************************************************************************)
(* A model of the term index and the two query handlers of src/portal.py:  *)
(* the module-level index construction (lines 16-85), find_closest         *)
(* (87-91), the /autocomplete handler (135-158) and the /map_icd handler   *)
(* (161-179); of FastTMExtractor in icd11.py (process_single_entity and    *)
(* extract_all_tm_entities_recursive); and of the page loop of             *)
(* extract_pages_1042_1330 in Micro-service/extract_all_pages_1042_1330.py.*)
(* Each program has its own specification; the variables of the programs   *)
(* a specification does not run keep the value NotRun.                     *)
(*                                                                         *)
(* Strings on which the code works character by character (terms, titles,  *)
(* queries, column names) are sequences of one-character strings.          *)
(* Identifiers and codes, which the code only compares, are TLA+ strings.  *)
(* rapidfuzz is modelled as of its 3.x releases: process.extract and       *)
(* process.extractOne apply no preprocessing, fuzz.ratio is the normalized *)
(* Indel similarity 100 * 2*LCS(a,b) / (len(a)+len(b)), 100 for two empty  *)
(* strings. Scores are kept as exact reduced fractions <<num, den>>; the   *)
(* doubles rapidfuzz returns compare with 60 and 80, and with one another, *)
(* exactly as these fractions do for the string lengths used here.         *)
(***************************************************************************)
EXTENDS Integers, Sequences, FiniteSets, TLC

VARIABLES
    icd_data,    \* list of ICD-11 records (dicts) loaded from the JSON file
    lang_dfs,    \* lang -> dataframe [columns, rows]
    term_index,  \* insertion-ordered dict: sequence of [key, bucket]
    request,     \* the request being answered: [op, arg]
    response,    \* the JSON array the handler returned
    status,      \* HTTP status of the response
    locals,      \* the handler's local variables when it returned
    extractor,   \* FastTMExtractor: processed_entities and complete_dataset
    who_api,     \* what the ICD-11 API holds: entity id -> entity data
    workers,     \* the running calls: recursive_worker frames, or threads
    returned,    \* what the last process_single_entity call returned
    page_loop    \* the locals of extract_pages_1042_1330

portal_vars == <<icd_data, lang_dfs, term_index, request, response, status, locals>>

extractor_vars == <<extractor, who_api, workers, returned>>

vars == <<icd_data, lang_dfs, term_index, request, response, status, locals,
          extractor, who_api, workers, returned, page_loop>>

\* the value of the variables of a program that is not running
NotRun == "not run"

\* icd11.py is not running
ExtractorNotRun ==
    extractor = NotRun /\ who_api = NotRun /\ workers = NotRun /\ returned = NotRun

(***************************************************************************)
(* Python values                                                           *)
(***************************************************************************)
\* Python's None (dict.get on a missing key); no identifier equals it.
None == "<None>"

\* None where the code expects a string of characters or a tuple
NoneSeq == <<"<None>">>

\* pandas' NaN for an empty CSV cell; no string of characters equals it.
NaN == <<"<NaN>">>

\* dict.get(k, default)
get(d, k, default) == IF k \in DOMAIN d THEN d[k] ELSE default

Max(a, b) == IF a >= b THEN a ELSE b

Min(a, b) == IF a <= b THEN a ELSE b

\* s[:n]
Take(s, n) == SubSeq(s, 1, Min(n, Len(s)))

Range(s) == {s[i] : i \in 1..Len(s)}

(***************************************************************************)
(* str methods                                                             *)
(***************************************************************************)
Lowercase ==
    [A |-> "a", B |-> "b", C |-> "c", D |-> "d", E |-> "e", F |-> "f",
     G |-> "g", H |-> "h", I |-> "i", J |-> "j", K |-> "k", L |-> "l",
     M |-> "m", N |-> "n", O |-> "o", P |-> "p", Q |-> "q", R |-> "r",
     S |-> "s", T |-> "t", U |-> "u", V |-> "v", W |-> "w", X |-> "x",
     Y |-> "y", Z |-> "z"]

\* str.lower()
lower(s) ==
    [i \in 1..Len(s) |-> IF s[i] \in DOMAIN Lowercase THEN Lowercase[s[i]] ELSE s[i]]

IsSpace(c) == c = " "

RECURSIVE lstrip(_)
lstrip(s) == IF s # <<>> /\ IsSpace(Head(s)) THEN lstrip(Tail(s)) ELSE s

RECURSIVE rstrip(_)
rstrip(s) ==
    IF s # <<>> /\ IsSpace(s[Len(s)]) THEN rstrip(SubSeq(s, 1, Len(s) - 1)) ELSE s

\* str.strip()
strip(s) == rstrip(lstrip(s))

\* Python's  sub in s
Contains(sub, s) ==
    \E i \in 0..(Len(s) - Len(sub)) : SubSeq(s, i + 1, i + Len(sub)) = sub

\* str.startswith
StartsWith(s, prefix) ==
    Len(prefix) <= Len(s) /\ SubSeq(s, 1, Len(prefix)) = prefix

\* str(cell) of a dataframe cell: a NaN cell prints as "nan"
str(cell) == IF cell = NaN THEN <<"n", "a", "n">> ELSE cell

\* Series.fillna('') of one cell
fillna(cell) == IF cell = NaN THEN <<>> ELSE cell

(***************************************************************************)
(* rapidfuzz: fuzz.ratio, process.extract, process.extractOne              *)
(***************************************************************************)
RECURSIVE GCD(_, _)
GCD(a, b) == IF b = 0 THEN a ELSE GCD(b, a % b)

\* the fraction n/d in lowest terms (d > 0)
Frac(n, d) == LET g == GCD(n, d) IN IF n = 0 THEN <<0, 1>> ELSE <<n \div g, d \div g>>

ScoreLT(s, t) == s[1] * t[2] < t[1] * s[2]

\* score >= n, score > n for an integer n
ScoreGE(s, n) == s[1] >= n * s[2]

ScoreGT(s, n) == s[1] > n * s[2]

\* one row of the LCS table: cur holds columns 0..Len(cur)-1 of the row of
\* character ch, prev is the row above
RECURSIVE lcs_row(_, _, _, _)
lcs_row(prev, ch, b, cur) ==
    IF Len(cur) = Len(b) + 1 THEN cur
    ELSE LET j == Len(cur)
         IN  lcs_row(prev, ch, b,
                     Append(cur, IF ch = b[j] THEN prev[j] + 1
                                 ELSE Max(prev[j + 1], cur[j])))

RECURSIVE lcs_rows(_, _, _)
lcs_rows(a, b, prev) ==
    IF a = <<>> THEN prev[Len(b) + 1]
    ELSE lcs_rows(Tail(a), b, lcs_row(prev, Head(a), b, <<0>>))

\* length of a longest common subsequence
LCS(a, b) == lcs_rows(a, b, [j \in 1..(Len(b) + 1) |-> 0])

\* fuzz.ratio without the factor 2 of the two strings' matched characters
ratio_unscaled(a, b) ==
    IF Len(a) + Len(b) = 0 THEN <<100, 1>>
    ELSE Frac(100 * LCS(a, b), Len(a) + Len(b))

\* fuzz.ratio normalized by the length of the query alone
ratio_of_query(a, b) ==
    IF Len(a) + Len(b) = 0 THEN <<100, 1>>
    ELSE IF Len(a) = 0 THEN <<0, 1>>
    ELSE Frac(100 * LCS(a, b), Len(a))

\* fuzz.partial_ratio in place of fuzz.ratio, for a shorter string whose
\* characters all align: the similarity relative to the shorter string
ratio_of_shorter(a, b) ==
    IF Len(a) + Len(b) = 0 THEN <<100, 1>>
    ELSE IF Min(Len(a), Len(b)) = 0 THEN <<0, 1>>
    ELSE Frac(100 * LCS(a, b), Min(Len(a), Len(b)))

\* fuzz.ratio(a, b): 100 * (1 - indel_distance / (len(a) + len(b)))
ratio(a, b) ==
    IF Len(a) + Len(b) = 0 THEN <<100, 1>>
    ELSE Frac(200 * LCS(a, b), Len(a) + Len(b))

\* Ranked with the later of two equal scores first
RECURSIVE Ranked_later_first(_, _)
Ranked_later_first(sc, todo) ==
    IF todo = {} THEN <<>>
    ELSE LET best == CHOOSE i \in todo : \A j \in todo \ {i} :
                        ScoreLT(sc[j], sc[i]) \/ (sc[j] = sc[i] /\ i > j)
         IN  <<best>> \o Ranked_later_first(sc, todo \ {best})

\* the positions of choices, best score first, equal scores in list order
RECURSIVE Ranked(_, _)
Ranked(sc, todo) ==
    IF todo = {} THEN <<>>
    ELSE LET best == CHOOSE i \in todo : \A j \in todo \ {i} :
                        ScoreLT(sc[j], sc[i]) \/ (sc[j] = sc[i] /\ i < j)
         IN  <<best>> \o Ranked(sc, todo \ {best})

\* the (choice, score) pairs at the positions order
scored_at(choices, sc, order) ==
    [n \in 1..Len(order) |-> <<choices[order[n]], sc[order[n]]>>]

\* the first limit (choice, score) pairs in list order, left unsorted
best_scored_unsorted(choices, sc, limit) ==
    scored_at(choices, sc, Take([i \in 1..Len(choices) |-> i], limit))

\* the best limit (choice, score) pairs for the scores sc
best_scored(choices, sc, limit) ==
    scored_at(choices, sc, Take(Ranked(sc, 1..Len(choices)), limit))

\* process.extract(query, choices, scorer=fuzz.ratio, limit=limit):
\* the list of (choice, score), best first, cut to limit
extract(query, choices, limit) ==
    best_scored(choices, [i \in 1..Len(choices) |-> ratio(query, choices[i])], limit)

\* process.extractOne(query, choices, scorer=fuzz.ratio): the best (choice,
\* score), the first of several best ones, None for no choices
extractOne(query, choices) ==
    IF choices = <<>> THEN NoneSeq ELSE extract(query, choices, 1)[1]

threshold == 80

\* lines 89-91 without the threshold test
accept_any(res) ==
    IF res # NoneSeq THEN <<res[1], res[2]>> ELSE <<NoneSeq, NoneSeq>>

\* lines 89-91: the result of extractOne if it reaches the threshold
accept(res) ==
    IF res # NoneSeq /\ ScoreGE(res[2], threshold) THEN <<res[1], res[2]>>
    ELSE <<NoneSeq, NoneSeq>>

\* find_closest(term, choices, threshold=80) -> (match, score) or (None, None)
find_closest(term, choices) == accept(extractOne(term, choices))

(***************************************************************************)
(* The term index (src/portal.py lines 32-85)                              *)
(***************************************************************************)
\* The traditional systems in the order of the csv_files dict
csv_files == <<"ayurveda", "unani", "siddha">>

\* lang[:3] of each system, as characters
LangPrefix ==
    [ayurveda |-> <<"a", "y", "u">>, unani |-> <<"u", "n", "a">>,
     siddha |-> <<"s", "i", "d">>]

EnglishTerm == <<"E", "n", "g", "l", "i", "s", "h", "T", "e", "r", "m">>

\* list(term_index.keys()): the keys in insertion order
keys_of(idx) == [i \in 1..Len(idx) |-> idx[i].key]

\* term_index.get(k, [])
bucket_of(idx, k) ==
    IF \E i \in 1..Len(idx) : idx[i].key = k
    THEN idx[CHOOSE i \in 1..Len(idx) : idx[i].key = k].bucket
    ELSE <<>>

\* term_index[k] = [item] in place of setdefault(k, []).append(item)
setdefault_overwrite(idx, k, item) ==
    IF \E i \in 1..Len(idx) : idx[i].key = k
    THEN [i \in 1..Len(idx) |->
            IF idx[i].key = k THEN [idx[i] EXCEPT !.bucket = <<item>>]
            ELSE idx[i]]
    ELSE Append(idx, [key |-> k, bucket |-> <<item>>])

\* term_index.setdefault(k, []).append(item)
setdefault_append(idx, k, item) ==
    IF \E i \in 1..Len(idx) : idx[i].key = k
    THEN [i \in 1..Len(idx) |->
            IF idx[i].key = k THEN [idx[i] EXCEPT !.bucket = Append(@, item)]
            ELSE idx[i]]
    ELSE Append(idx, [key |-> k, bucket |-> <<item>>])

icd_item(rec, term) ==
    [lang |-> "ICD-11", term |-> term, icd_id |-> get(rec, "id", None),
     icd_code |-> get(rec, "code", None), source_record |-> rec]

\* lines 36-45: index the titles
RECURSIVE index_titles(_, _)
index_titles(idx, recs) ==
    IF recs = <<>> THEN idx
    ELSE LET icd_rec == Head(recs)
             icd_title == strip(get(icd_rec, "title", <<>>))
         IN  index_titles(
                 IF icd_title # <<>>
                 THEN setdefault_append(idx, lower(icd_title), icd_item(icd_rec, icd_title))
                 ELSE idx,
                 Tail(recs))

\* lines 51-60: the synonyms of one record (plain strings or {'value': ...})
RECURSIVE index_synonym_list(_, _, _)
index_synonym_list(idx, icd_rec, synonyms) ==
    IF synonyms = <<>> THEN idx
    ELSE LET syn_val == Head(synonyms)
         IN  index_synonym_list(
                 IF syn_val # <<>>
                 THEN setdefault_append(idx, lower(syn_val), icd_item(icd_rec, syn_val))
                 ELSE idx,
                 icd_rec, Tail(synonyms))

\* lines 48-60: index the synonyms
RECURSIVE index_synonyms(_, _)
index_synonyms(idx, recs) ==
    IF recs = <<>> THEN idx
    ELSE index_synonyms(
             index_synonym_list(idx, Head(recs), get(Head(recs), "synonym", <<>>)),
             Tail(recs))

\* row.get(col, '')
row_get(df, row, col) ==
    IF \E c \in 1..Len(df.columns) : df.columns[c] = col
    THEN row[CHOOSE c \in 1..Len(df.columns) : df.columns[c] = col]
    ELSE <<>>

\* lines 76-79: the columns that name a local term of lang
IsLocalCol(lang, col) ==
    StartsWith(lower(col), LangPrefix[lang]) /\ Contains(<<"t", "e", "r", "m">>, lower(col))

\* lines 74-79: the local term of a row, None without such a column
local_term_of(lang, df, row) ==
    IF \E c \in 1..Len(df.columns) : IsLocalCol(lang, df.columns[c])
    THEN LET c == CHOOSE c \in 1..Len(df.columns) :
                     /\ IsLocalCol(lang, df.columns[c])
                     /\ \A b \in 1..(c - 1) : ~IsLocalCol(lang, df.columns[b])
         IN  strip(str(row[c]))
    ELSE NoneSeq

csv_item(lang, term, row) == [lang |-> lang, term |-> term, csv_row |-> row]

\* lines 64-85: the rows of one dataframe
RECURSIVE index_rows(_, _, _, _)
index_rows(idx, lang, df, rows) ==
    IF rows = <<>> THEN idx
    ELSE LET row == Head(rows)
             eng_term == strip(str(row_get(df, row, EnglishTerm)))
             local_term == local_term_of(lang, df, row)
             idx1 == IF eng_term # <<>>
                     THEN setdefault_append(idx, lower(eng_term), csv_item(lang, eng_term, row))
                     ELSE idx
             idx2 == IF local_term # NoneSeq /\ local_term # <<>>
                     THEN setdefault_append(idx1, lower(local_term), csv_item(lang, local_term, row))
                     ELSE idx1
         IN  index_rows(idx2, lang, df, Tail(rows))

\* lines 63-85: the dataframes, in csv_files order
RECURSIVE index_csv(_, _, _)
index_csv(idx, dfs, langs) ==
    IF langs = <<>> THEN idx
    ELSE index_csv(index_rows(idx, Head(langs), dfs[Head(langs)], dfs[Head(langs)].rows),
                   dfs, Tail(langs))

\* the index with the block of lines 63-85 run before that of lines 36-60
build_index_csv_first(icd, dfs) ==
    index_synonyms(index_titles(index_csv(<<>>, dfs, csv_files), icd), icd)

\* lines 33-85: the index of a loaded dataset
build_index(icd, dfs) ==
    index_csv(index_synonyms(index_titles(<<>>, icd), icd), dfs, csv_files)

\* the concatenation of a sequence of sequences
RECURSIVE Concat(_)
Concat(ss) == IF ss = <<>> THEN <<>> ELSE Head(ss) \o Concat(Tail(ss))

\* line 40: the items appended for the titles, in record order
title_items(recs) ==
    Concat([i \in 1..Len(recs) |->
               IF strip(get(recs[i], "title", <<>>)) # <<>>
               THEN <<icd_item(recs[i], strip(get(recs[i], "title", <<>>)))>>
               ELSE <<>>])

\* lines 51-60: the items appended for the synonyms of one record
synonym_items_of(icd_rec, synonyms) ==
    Concat([n \in 1..Len(synonyms) |->
               IF synonyms[n] # <<>> THEN <<icd_item(icd_rec, synonyms[n])>> ELSE <<>>])

\* lines 48-60: the items appended for the synonyms, in record order
synonym_items(recs) ==
    Concat([i \in 1..Len(recs) |->
               synonym_items_of(recs[i], get(recs[i], "synonym", <<>>))])

\* lines 67-85: the items appended for one row, English term first
row_items(lang, df, row, eng_term, local_term) ==
    (IF eng_term # <<>> THEN <<csv_item(lang, eng_term, row)>> ELSE <<>>)
    \o (IF local_term # NoneSeq /\ local_term # <<>>
        THEN <<csv_item(lang, local_term, row)>> ELSE <<>>)

\* lines 64-85: the items appended for one dataframe, in row order
df_items(lang, df) ==
    Concat([r \in 1..Len(df.rows) |->
               row_items(lang, df, df.rows[r],
                         strip(str(row_get(df, df.rows[r], EnglishTerm))),
                         local_term_of(lang, df, df.rows[r]))])

\* lines 36-85: every item appended to a bucket, in the order of the appends
load_sequence(icd, dfs) ==
    title_items(icd) \o synonym_items(icd)
    \o Concat([n \in 1..Len(csv_files) |-> df_items(csv_files[n], dfs[csv_files[n]])])

(***************************************************************************)
(* /autocomplete (src/portal.py lines 135-158)                             *)
(***************************************************************************)
\* limit=10 of process.extract (line 143)
extract_limit == 10

\* the score a fuzzy match must exceed (line 144)
fuzzy_cutoff == 60

\* results[:10] (line 156)
results_cap == 10

\* line 141 over reversed(keys): the newest key first
substring_matches_newest_first(term, keys) ==
    SelectSeq([i \in 1..Len(keys) |-> keys[Len(keys) + 1 - i]],
              LAMBDA k : Contains(term, k))

\* line 141 stopping at the first key that contains the term
substring_matches_first(term, keys) ==
    Take(SelectSeq(keys, LAMBDA k : Contains(term, k)), 1)

\* line 141: the keys that contain the term, in key order
substring_matches(term, keys) == SelectSeq(keys, LAMBDA k : Contains(term, k))

\* the choices of a list of (choice, score)
choices_of(found) == [i \in 1..Len(found) |-> found[i][1]]

\* line 144 keeping a score equal to the cutoff
above_cutoff_ge(found) ==
    choices_of(SelectSeq(found, LAMBDA m : ScoreGE(m[2], fuzzy_cutoff)))

\* line 144: the keys of the matches scoring above the cutoff
above_cutoff(found) ==
    choices_of(SelectSeq(found, LAMBDA m : ScoreGT(m[2], fuzzy_cutoff)))

\* lines 143-144: the best extract_limit keys, those scoring above the cutoff
fuzzy_matches(term, keys) == above_cutoff(extract(term, keys, extract_limit))

\* lines 142-144 running the fuzzy pass whatever the substring pass found
fallback_blend(matches, term, keys) ==
    [matches |-> matches \o fuzzy_matches(term, keys), passes |-> <<"substring", "fuzzy">>]

\* lines 142-144: the fuzzy pass runs if the substring pass found nothing
fallback(matches, term, keys) ==
    IF matches # <<>>
    THEN [matches |-> matches, passes |-> <<"substring">>]
    ELSE [matches |-> fuzzy_matches(term, keys), passes |-> <<"substring", "fuzzy">>]

\* lines 141-144: the matched keys and the passes that ran to find them
select_matches(term, keys) == fallback(substring_matches(term, keys), term, keys)

\* lines 150-155: the hit made of an index item
hit_of(item) ==
    [term |-> item.term, lang |-> item.lang,
     icd_id |-> get(item, "icd_id", ""), icd_code |-> get(item, "icd_code", "")]

\* lines 146-147: the items of the matched keys' buckets, in visiting order
RECURSIVE visited_items(_, _)
visited_items(idx, matches) ==
    IF matches = <<>> THEN <<>>
    ELSE bucket_of(idx, Head(matches)) \o visited_items(idx, Tail(matches))

\* collect without the test on added
RECURSIVE collect_all(_, _, _)
collect_all(items, added, results) ==
    IF items = <<>> THEN results
    ELSE collect_all(Tail(items), added, Append(results, hit_of(Head(items))))

\* collect storing the hits by term, a later item replacing the hit of its term
RECURSIVE collect_last_wins(_, _, _)
collect_last_wins(items, added, results) ==
    IF items = <<>> THEN results
    ELSE LET item == Head(items)
         IN  IF item.term \notin added
             THEN collect_last_wins(Tail(items), added \cup {item.term},
                                    Append(results, hit_of(item)))
             ELSE collect_last_wins(Tail(items), added,
                      [n \in 1..Len(results) |->
                          IF results[n].term = item.term THEN hit_of(item)
                          ELSE results[n]])

\* lines 145-155: one hit per term not yet in added
RECURSIVE collect(_, _, _)
collect(items, added, results) ==
    IF items = <<>> THEN results
    ELSE LET item == Head(items)
         IN  IF item.term \notin added
             THEN collect(Tail(items), added \cup {item.term}, Append(results, hit_of(item)))
             ELSE collect(Tail(items), added, results)

\* lines 145-156 cutting the visited items, not the hits, to the cap
fan_out_cap_first(idx, term, sel) ==
    [term |-> term, scanned |-> TRUE, passes |-> sel.passes, matches |-> sel.matches,
     results |-> collect(Take(visited_items(idx, sel.matches), results_cap), {}, <<>>)]

\* lines 145-156: the locals and the result, given the matched keys
fan_out(idx, term, sel) ==
    [term |-> term, scanned |-> TRUE, passes |-> sel.passes, matches |-> sel.matches,
     results |-> Take(collect(visited_items(idx, sel.matches), {}, <<>>), results_cap)]

\* lines 139-156: the locals and the result for the normalized term
search(idx, term) ==
    IF term # <<>>
    THEN fan_out(idx, term, select_matches(term, keys_of(idx)))
    ELSE [term |-> term, scanned |-> FALSE, passes |-> <<>>,
          matches |-> <<>>, results |-> <<>>]

\* lines 137-158: the handler's locals and its result for the raw query
autocomplete(idx, raw) == search(idx, lower(strip(raw)))

(***************************************************************************)
(* /map_icd (src/portal.py lines 161-179)                                  *)
(***************************************************************************)
\* line 167: some record carries this id
has_icd_rec(icd, icd_id) == \E i \in 1..Len(icd) : get(icd[i], "id", None) = icd_id

\* line 167: the first record with this id
find_icd_rec(icd, icd_id) ==
    icd[CHOOSE i \in 1..Len(icd) :
           /\ get(icd[i], "id", None) = icd_id
           /\ \A j \in 1..(i - 1) : get(icd[j], "id", None) # icd_id]

HasColumn(df, col) == \E c \in 1..Len(df.columns) : df.columns[c] = col

\* line 174 taking every column of the dataframe, row by row
terms_of_all_columns(df) ==
    Concat([r \in 1..Len(df.rows) |->
               [c \in 1..Len(df.columns) |-> fillna(df.rows[r][c])]])

\* line 174: df['EnglishTerm'].fillna('').tolist()
eng_terms_of(df) ==
    [r \in 1..Len(df.rows) |-> fillna(row_get(df, df.rows[r], EnglishTerm))]

\* Python truth of a match: neither None nor the empty string
Truthy(match) == match # NoneSeq /\ match # <<>>

\* lines 176-178: the mapping of lang for what find_closest returned
mapping_of(lang, found) ==
    IF Truthy(found[1])
    THEN <<[lang |-> lang, term |-> found[1], score |-> found[2]]>>
    ELSE <<>>

\* map_langs with mapped.insert(0, ...) in place of mapped.append(...)
RECURSIVE map_langs_prepend(_, _, _)
map_langs_prepend(icd_title, dfs, langs) ==
    IF langs = <<>> THEN <<>>
    ELSE map_langs_prepend(icd_title, dfs, Tail(langs))
         \o mapping_of(Head(langs), find_closest(icd_title, eng_terms_of(dfs[Head(langs)])))

\* lines 173-178: the mappings of icd_title into the systems langs
RECURSIVE map_langs(_, _, _)
map_langs(icd_title, dfs, langs) ==
    IF langs = <<>> THEN <<>>
    ELSE mapping_of(Head(langs), find_closest(icd_title, eng_terms_of(dfs[Head(langs)])))
         \o map_langs(icd_title, dfs, Tail(langs))

\* map_icd without the test of line 168: None.get raises
map_icd_unguarded(icd, dfs, icd_id) ==
    IF icd_id = "" THEN [status |-> 200, mapped |-> <<>>, found |-> FALSE]
    ELSE IF ~has_icd_rec(icd, icd_id)
    THEN [status |-> 500, mapped |-> <<>>, found |-> FALSE]
    ELSE [status |-> 200, found |-> TRUE,
          mapped |-> map_langs(get(find_icd_rec(icd, icd_id), "title", <<>>), dfs, csv_files)]

\* lines 163-179: status and body of the response for icd_id
map_icd(icd, dfs, icd_id) ==
    IF icd_id = "" \/ ~has_icd_rec(icd, icd_id)
    THEN [status |-> 200, mapped |-> <<>>, found |-> FALSE]
    ELSE IF \E l \in Range(csv_files) : ~HasColumn(dfs[l], EnglishTerm)
    THEN [status |-> 500, mapped |-> <<>>, found |-> TRUE]
    ELSE [status |-> 200, found |-> TRUE,
          mapped |-> map_langs(get(find_icd_rec(icd, icd_id), "title", <<>>), dfs, csv_files)]

(***************************************************************************)
(* The datasets and requests the model ranges over                         *)
(***************************************************************************)
\* at most this many records and rows in a dataset of the mixed family
MaxRecs == 3

\* at most this many rows in the dataset of the long family
MaxBig == 12

UnaniTerm == <<"U", "n", "a", "n", "i", "T", "e", "r", "m">>

SiddhaTerm == <<"S", "i", "d", "d", "h", "a", "T", "e", "r", "m">>

\* the columns of each system's CSV file
Columns ==
    [ayurveda |-> <<EnglishTerm>>, unani |-> <<EnglishTerm, UnaniTerm>>,
     siddha |-> <<EnglishTerm, SiddhaTerm>>]

\* records of the JSON file and rows of the CSV files a dataset is made of
EntryPool ==
    { [sys |-> "ICD-11",
       rec |-> [id |-> "X1", code |-> "TM1", title |-> <<"a", "b", "c">>]],
      [sys |-> "ICD-11",
       rec |-> [code |-> "TM2", title |-> <<" ", "A", "b">>,
                synonym |-> << <<"a", "b", "c", "d">> >>]],
      [sys |-> "ICD-11",
       rec |-> [id |-> "X3", synonym |-> << <<" ">>, <<"a", "b", "c">> >>]],
      [sys |-> "ayurveda", row |-> << NaN >>],
      [sys |-> "unani", row |-> << <<"a", "b", "c", "d">>, <<"a", "b", "c">> >>],
      [sys |-> "siddha", row |-> << <<"a", "b", "c", "x", "y", "z">>, NaN >>],
      [sys |-> "siddha", row |-> << <<"a", "b">>, <<"x", "A", "b", "c">> >>],
      [sys |-> "siddha", row |-> << <<"b", "c">>, NaN >>] }

RECURSIVE SeqsUpTo(_, _)
SeqsUpTo(S, n) ==
    IF n = 0 THEN {<<>>}
    ELSE LET shorter == SeqsUpTo(S, n - 1)
         IN  shorter \cup {Append(s, x) : s \in shorter, x \in S}

\* the JSON records among the entries, in order
icd_of(entries) ==
    LET picked == SelectSeq(entries, LAMBDA e : e.sys = "ICD-11")
    IN  [i \in 1..Len(picked) |-> picked[i].rec]

\* the dataframe of lang among the entries
df_of(entries, lang) ==
    LET picked == SelectSeq(entries, LAMBDA e : e.sys = lang)
    IN  [columns |-> Columns[lang], rows |-> [i \in 1..Len(picked) |-> picked[i].row]]

dfs_of(entries) == [lang \in Range(csv_files) |-> df_of(entries, lang)]

\* the characters that tell the terms of the long family apart
BigChars ==
    <<"0", "1", "2", "3", "4", "5", "6", "7", "8", "9", "e", "f", "g", "h", "k", "m">>

\* the long family: one record, n ayurveda rows "abc0", "abc1", ... and a unani
\* row whose two terms repeat the record's title
BigEntries(n) ==
    <<[sys |-> "ICD-11", rec |-> [id |-> "X1", code |-> "TM1", title |-> <<"a", "b", "c">>]]>>
    \o [i \in 1..n |-> [sys |-> "ayurveda", row |-> << <<"a", "b", "c", BigChars[i]>> >>]]
    \o <<[sys |-> "unani", row |-> << <<"a", "b", "c">>, <<"a", "b", "c">> >>],
         [sys |-> "siddha", row |-> << <<"x", " ", "a", "b", "c">>, NaN >>]>>

VataVyadhi == <<"V", "a", "t", "a", " ", "V", "y", "a", "d", "h", "i">>

VataVyadhiDisorder == VataVyadhi \o <<" ", "D", "i", "s", "o", "r", "d", "e", "r">>

KaphaRoga == <<"K", "a", "p", "h", "a", " ", "R", "o", "g", "a">>

\* the dataset of the documented scenario: one classification record and two
\* rows of the first traditional system
ScenarioEntries ==
    <<[sys |-> "ICD-11", rec |-> [id |-> "X1", code |-> "TM2-A01", title |-> VataVyadhi]],
      [sys |-> "ayurveda", row |-> <<VataVyadhiDisorder>>],
      [sys |-> "ayurveda", row |-> <<KaphaRoga>>]>>

Datasets ==
    SeqsUpTo(EntryPool, MaxRecs) \cup {BigEntries(n) : n \in 0..MaxBig} \cup {ScenarioEntries}

AyurvedaTerm == <<"A", "y", "u", "r", "v", "e", "d", "a", "T", "e", "r", "m">>

\* a dataset whose ayurveda file has a local-term column and no EnglishTerm
\* column: row.get('EnglishTerm', '') of line 66 reads such a file
LocalOnlyDataset ==
    [icd |-> <<[id |-> "X1", code |-> "TM1", title |-> <<"a", "b", "c">>]>>,
     dfs |-> [lang \in Range(csv_files) |->
                IF lang = "ayurveda"
                THEN [columns |-> <<AyurvedaTerm>>, rows |-> << << <<"a", "b", "c">> >> >>]
                ELSE [columns |-> Columns[lang], rows |-> <<>>]]]

\* the JSON records and the dataframes the server may have loaded
Loaded ==
    {[icd |-> icd_of(entries), dfs |-> dfs_of(entries)] : entries \in Datasets}
    \cup {LocalOnlyDataset}

\* the raw values of the term parameter
QueryPool ==
    { <<>>, <<"a">>, <<"a", "b">>, <<" ", "A", "b", "c">>, <<"a", "b", "c", "d">>,
      <<"v", "a", "t", "a">> }

\* the values of the icd_id parameter
IdPool == {"", "X1", "X3", "X9"}

(***************************************************************************)
(* The server                                                              *)
(***************************************************************************)
Init ==
    /\ \E data \in Loaded :
          /\ icd_data = data.icd
          /\ lang_dfs = data.dfs
          /\ term_index = build_index(data.icd, data.dfs)
    /\ request = [op |-> "none"]
    /\ response = <<>>
    /\ status = 0
    /\ locals = [op |-> "none"]
    /\ ExtractorNotRun
    /\ page_loop = NotRun

\* GET /autocomplete?term=raw
Autocomplete(raw) ==
    /\ locals' = autocomplete(term_index, raw)
    /\ request' = [op |-> "autocomplete", arg |-> raw]
    /\ response' = locals'.results
    /\ status' = 200
    /\ UNCHANGED <<icd_data, lang_dfs, term_index>>
    /\ UNCHANGED <<extractor, who_api, workers, returned, page_loop>>

\* MapIcd with fillna('', inplace=True) on the EnglishTerm column
MapIcd_inplace(icd_id) ==
    /\ locals' = map_icd(icd_data, lang_dfs, icd_id)
    /\ request' = [op |-> "map_icd", arg |-> icd_id]
    /\ response' = locals'.mapped
    /\ status' = locals'.status
    /\ lang_dfs' =
          IF locals'.found
          THEN [lang \in Range(csv_files) |->
                  [lang_dfs[lang] EXCEPT !.rows =
                      [r \in 1..Len(@) |-> [c \in 1..Len(@[r]) |->
                          IF lang_dfs[lang].columns[c] = EnglishTerm
                          THEN fillna(@[r][c]) ELSE @[r][c]]]]]
          ELSE lang_dfs
    /\ UNCHANGED <<icd_data, term_index>>
    /\ UNCHANGED <<extractor, who_api, workers, returned, page_loop>>

\* GET /map_icd?icd_id=icd_id
MapIcd(icd_id) ==
    /\ locals' = map_icd(icd_data, lang_dfs, icd_id)
    /\ request' = [op |-> "map_icd", arg |-> icd_id]
    /\ response' = locals'.mapped
    /\ status' = locals'.status
    /\ UNCHANGED <<icd_data, lang_dfs, term_index>>
    /\ UNCHANGED <<extractor, who_api, workers, returned, page_loop>>

Next ==
    \/ \E raw \in QueryPool : Autocomplete(raw)
    \/ \E icd_id \in IdPool : MapIcd(icd_id)

Spec == Init /\ [][Next]_vars

(***************************************************************************)
(* The scorer on its own: fuzz.ratio applied to a pair of strings          *)
(***************************************************************************)
\* at most this many characters in a scored string
MaxLen == 3

ScoreChars == {"a", "b", "c"}

\* the strings the scorer is applied to
ScoreStrings == SeqsUpTo(ScoreChars, MaxLen)

\* a pair of strings waits to be scored
InitRatio ==
    /\ icd_data = <<>>
    /\ lang_dfs = dfs_of(<<>>)
    /\ term_index = <<>>
    /\ \E a, b \in ScoreStrings : request = [op |-> "ratio", a |-> a, b |-> b]
    /\ response = <<>>
    /\ status = 0
    /\ locals = [op |-> "none"]
    /\ ExtractorNotRun
    /\ page_loop = NotRun

\* fuzz.ratio scores the pair, in both orders of its arguments
FuzzRatio ==
    /\ locals.op = "none"
    /\ locals' = [op |-> "ratio", ab |-> ratio(request.a, request.b),
                  ba |-> ratio(request.b, request.a)]
    /\ UNCHANGED <<icd_data, lang_dfs, term_index, request, response, status>>
    /\ UNCHANGED <<extractor, who_api, workers, returned, page_loop>>

NextRatio == FuzzRatio

SpecRatio == InitRatio /\ [][NextRatio]_vars

(***************************************************************************)
(* Properties of the handlers                                              *)
(***************************************************************************)
\* the query of the autocomplete request, as line 137 normalizes it
Normalized == lower(strip(request.arg))

\* the substring pass of the request finds a key
SubstringPassFinds ==
    /\ request.op = "autocomplete"
    /\ Normalized # <<>>
    /\ \E k \in Range(keys_of(term_index)) : Contains(Normalized, k)

\* the substring pass of the request runs and finds no key
SubstringPassEmpty ==
    /\ request.op = "autocomplete"
    /\ Normalized # <<>>
    /\ \A k \in Range(keys_of(term_index)) : ~Contains(Normalized, k)

\* C1: a query of fewer than 2 characters is answered by the empty list,
\* without the key set being scanned.
C1_ShortQueryEmpty ==
    (request.op = "autocomplete" /\ Len(request.arg) < 2)
        => (response = <<>> /\ ~locals.scanned)

\* C2 as stated: when the substring pass finds a key, the fuzzy pass does not
\* run and every hit comes from a key that contains the lowercased query.
C2_HitsContainLowercasedQuery ==
    SubstringPassFinds =>
        /\ locals.passes = <<"substring">>
        /\ \A i \in 1..Len(response) :
              Contains(lower(request.arg), lower(response[i].term))

\* C2 amended: when the substring pass finds a key, the fuzzy pass does not
\* run and every hit comes from a key that contains the query lowercased and
\* stripped of surrounding whitespace.
C2_HitsContainNormalizedQuery ==
    SubstringPassFinds =>
        /\ locals.passes = <<"substring">>
        /\ \A i \in 1..Len(response) : Contains(Normalized, lower(response[i].term))

\* C2 witness: the substring pass found a key while another key, which does
\* not contain the query, scores above the fuzzy cutoff.
C2_Witness ==
    /\ SubstringPassFinds
    /\ response # <<>>
    /\ \E k \in Range(keys_of(term_index)) :
          ~Contains(Normalized, k) /\ ScoreGT(ratio(Normalized, k), fuzzy_cutoff)

\* key number j of the index is ranked before key number i for the query
RankedBefore(j, i) ==
    LET keys == keys_of(term_index)
        sj == ratio(Normalized, keys[j])
        si == ratio(Normalized, keys[i])
    IN  ScoreLT(si, sj) \/ (si = sj /\ j < i)

\* key number i is among the 10 best keys for the query
AmongTenBest(i) ==
    Cardinality({j \in 1..Len(term_index) : RankedBefore(j, i)}) < 10

\* C3 as stated: when the substring pass finds no key, every key among the 10
\* best that scores at least 60 is selected, and nothing else is.
C3_ScoreAtLeast60Selected ==
    SubstringPassEmpty =>
        /\ Len(locals.matches) <= 10
        /\ \A i \in 1..Len(term_index) :
              (term_index[i].key \in Range(locals.matches))
                  <=> (AmongTenBest(i) /\ ScoreGE(ratio(Normalized, term_index[i].key), 60))

\* C3 amended: when the substring pass finds no key, the keys selected are
\* those among the 10 best that score strictly more than 60.
C3_ScoreAbove60Selected ==
    SubstringPassEmpty =>
        /\ locals.passes = <<"substring", "fuzzy">>
        /\ Len(locals.matches) <= 10
        /\ \A i \in 1..Len(term_index) :
              (term_index[i].key \in Range(locals.matches))
                  <=> (AmongTenBest(i) /\ ScoreGT(ratio(Normalized, term_index[i].key), 60))

\* C3 witness: the fuzzy pass selected a key while another key scores exactly 60.
C3_Witness ==
    /\ SubstringPassEmpty
    /\ locals.matches # <<>>
    /\ \E k \in Range(keys_of(term_index)) : ratio(Normalized, k) = <<60, 1>>

\* C4: an autocomplete result has at most 10 hits and no two hits with the
\* same term.
C4_AtMostTenDistinctHits ==
    request.op = "autocomplete" =>
        /\ Len(response) <= 10
        /\ \A i, j \in 1..Len(response) : response[i].term = response[j].term => i = j

\* C4 witness: the matched buckets hold more than 10 items, two of them with
\* the same term, and 10 hits are returned.
C4_Witness ==
    /\ request.op = "autocomplete"
    /\ Len(response) = 10
    /\ LET items == visited_items(term_index, locals.matches)
       IN  /\ Len(items) > 10
           /\ \E i, j \in 1..Len(items) : i < j /\ items[i].term = items[j].term

\* C5: a map_icd result has at most one mapping per system, each for one of
\* the three systems and with a score of at least 80.
C5_OnePerSystemAtLeast80 ==
    request.op = "map_icd" =>
        /\ \A i \in 1..Len(response) :
              /\ response[i].lang \in {"ayurveda", "unani", "siddha"}
              /\ ScoreGE(response[i].score, 80)
        /\ \A i, j \in 1..Len(response) : response[i].lang = response[j].lang => i = j

\* C5 witness: one system is mapped with a score of exactly 80 and another
\* system, which has candidates, is left out.
C5_Witness ==
    /\ request.op = "map_icd"
    /\ \E i \in 1..Len(response) : response[i].score = <<80, 1>>
    /\ \E lang \in Range(csv_files) :
          /\ lang_dfs[lang].rows # <<>>
          /\ \A i \in 1..Len(response) : response[i].lang # lang

\* C6: map_icd with an id that no record carries answers the empty list with
\* status 200.
C6_UnknownIdEmpty ==
    (request.op = "map_icd" /\ ~has_icd_rec(icd_data, request.arg))
        => (response = <<>> /\ status = 200)

\* C6 witness: a non-empty id that no record of a non-empty dataset carries
\* was asked for.
C6_Witness ==
    /\ request.op = "map_icd"
    /\ request.arg # ""
    /\ icd_data # <<>>
    /\ ~has_icd_rec(icd_data, request.arg)
    /\ \E lang \in Range(csv_files) : lang_dfs[lang].rows # <<>>

\* C7: an index with no keys never serves a request.
C7_EmptyIndexNeverServes == request.op # "none" => term_index # <<>>

\* C8: no request changes the index or the loaded datasets.
C8_QueriesLeaveDataUnchanged ==
    [][icd_data' = icd_data /\ lang_dfs' = lang_dfs /\ term_index' = term_index]_vars

\* C8 witness: a mapping request for a known record was answered over
\* dataframes that hold an empty cell.
C8_Witness ==
    /\ request.op = "map_icd"
    /\ locals.found
    /\ term_index # <<>>
    /\ \E lang \in Range(csv_files) : \E r \in 1..Len(lang_dfs[lang].rows) :
          lang_dfs[lang].rows[r][1] = NaN

\* the positions of items holding the first record of their term
FirstOfTerm(items) ==
    {i \in 1..Len(items) : \A j \in 1..(i - 1) : items[j].term # items[i].term}

\* the n-th smallest position of K
NthOf(K, n) == CHOOSE i \in K : Cardinality({j \in K : j < i}) = n - 1

\* hits are, in order, the records at the positions K of items
HitsAreRecordsAt(hits, items, K) ==
    /\ Len(hits) = Min(Cardinality(K), results_cap)
    /\ \A n \in 1..Len(hits) :
          LET item == items[NthOf(K, n)]
          IN  /\ hits[n].term = item.term
              /\ hits[n].lang = item.lang
              /\ hits[n].icd_id = IF "icd_id" \in DOMAIN item THEN item.icd_id ELSE ""
              /\ hits[n].icd_code = IF "icd_code" \in DOMAIN item THEN item.icd_code ELSE ""

\* C11: the hits of an autocomplete request are the records of the matched
\* keys' buckets, in matched-key order and then bucket order, keeping for
\* each term only the first record with that term (its system, id and code),
\* up to the cap on the number of hits.
C11_FirstRecordOfEachTerm ==
    request.op = "autocomplete" =>
        HitsAreRecordsAt(response, visited_items(term_index, locals.matches),
                         FirstOfTerm(visited_items(term_index, locals.matches)))

\* two matched keys, and a term held by records of two systems: the hit is
\* the earlier record's
SameTermTwoSystems(items) ==
    \E i, j \in 1..Len(items) :
        /\ i < j
        /\ items[i].term = items[j].term
        /\ items[i].lang # items[j].lang
        /\ i \in FirstOfTerm(items)
        /\ \E n \in 1..Len(response) :
              response[n].term = items[i].term /\ response[n].lang = items[i].lang

C11_Witness ==
    /\ request.op = "autocomplete"
    /\ Len(locals.matches) >= 2
    /\ SameTermTwoSystems(visited_items(term_index, locals.matches))

\* the place of each system in the fixed enumeration
SystemRank == [ayurveda |-> 1, unani |-> 2, siddha |-> 3]

\* C12: the mappings of a response come in the fixed order ayurveda, unani,
\* siddha, whatever their scores and whichever systems are left out.
C12_MappingsInSystemOrder ==
    request.op = "map_icd" =>
        \A i, j \in 1..Len(response) :
            i < j => SystemRank[response[i].lang] < SystemRank[response[j].lang]

\* C12 witness: two mappings, the later one with the higher score, and a
\* system with rows left out.
C12_Witness ==
    /\ request.op = "map_icd"
    /\ Len(response) = 2
    /\ ScoreLT(response[1].score, response[2].score)
    /\ \A lang \in Range(csv_files) : lang_dfs[lang].rows # <<>>

\* the title the mapping request scored the candidates against
RequestTitle == get(find_icd_rec(icd_data, request.arg), "title", <<>>)

\* m is the first of the best-scoring candidates cands for title
FirstBest(m, title, cands) ==
    \E i \in 1..Len(cands) :
        /\ m.term = cands[i]
        /\ m.score = ratio(title, cands[i])
        /\ \A j \in 1..Len(cands) : ~ScoreLT(m.score, ratio(title, cands[j]))
        /\ \A j \in 1..(i - 1) : ScoreLT(ratio(title, cands[j]), m.score)

\* C13: the candidate a mapping returns has the highest score of the
\* system's candidates, and is the first in row order of those that have it.
C13_HighestScoreFirstOnTies ==
    (request.op = "map_icd" /\ locals.found) =>
        \A n \in 1..Len(response) :
            FirstBest(response[n], RequestTitle,
                      eng_terms_of(lang_dfs[response[n].lang]))

\* two different candidates of cands share the score of the mapping m
TiedBest(m, title, cands) ==
    \E i, j \in 1..Len(cands) :
        /\ i < j
        /\ cands[i] # cands[j]
        /\ m.term = cands[i]
        /\ ratio(title, cands[i]) = m.score
        /\ ratio(title, cands[j]) = m.score

\* C13 witness: a mapping was returned for a system in which two different
\* candidates tie for the highest score.
C13_Witness ==
    /\ request.op = "map_icd"
    /\ locals.found
    /\ \E n \in 1..Len(response) :
          TiedBest(response[n], RequestTitle, eng_terms_of(lang_dfs[response[n].lang]))

\* C14: no indexed record has an empty or blank term, and every term of a
\* CSV record is a term its row holds: empty, blank and missing titles,
\* synonyms, English terms and local terms are dropped at load time.
C14_NoBlankOrMissingTermIndexed ==
    \A e \in 1..Len(term_index) : \A b \in 1..Len(term_index[e].bucket) :
        LET item == term_index[e].bucket[b]
        IN  /\ strip(item.term) # <<>>
            /\ "csv_row" \in DOMAIN item =>
                  \E c \in 1..Len(item.csv_row) :
                      item.csv_row[c] # NaN /\ strip(item.csv_row[c]) = item.term

\* the buckets of idx are the records of load grouped by lowercased term
GroupedByKey(idx, load) ==
    /\ \A e \in 1..Len(idx) :
          /\ idx[e].bucket = SelectSeq(load, LAMBDA item : lower(item.term) = idx[e].key)
          /\ idx[e].bucket # <<>>
    /\ \A e, f \in 1..Len(idx) : idx[e].key = idx[f].key => e = f
    /\ \A i \in 1..Len(load) : \E e \in 1..Len(idx) : idx[e].key = lower(load[i].term)

\* C15: the bucket of every key is the subsequence of the load sequence made
\* of the records whose lowercased term is the key, in load order; no bucket
\* is empty, and no record lies under another key than its lowercased term.
C15_BucketsAreLoadSubsequences ==
    GroupedByKey(term_index, load_sequence(icd_data, lang_dfs))

\* records i < k < j of load: i and j share a key that k does not have
Interleaved(load) ==
    \E i, k, j \in 1..Len(load) :
        /\ i < k /\ k < j
        /\ lower(load[i].term) = lower(load[j].term)
        /\ lower(load[k].term) # lower(load[i].term)
        /\ load[i].lang # load[j].lang

\* C15 witness: two records of different systems share a bucket although a
\* record of another key was loaded between them.
C15_Witness ==
    /\ Len(term_index) >= 2
    /\ Interleaved(load_sequence(icd_data, lang_dfs))

\* the terms of the indexed records whose lowercased term contains q
TermsContaining(idx, q) ==
    UNION {{idx[e].bucket[b].term :
               b \in {c \in 1..Len(idx[e].bucket) :
                         Contains(q, lower(idx[e].bucket[c].term))}} :
           e \in 1..Len(idx)}

\* every term of terms is the term of a hit, if terms are at most the cap
AllReturned(terms) ==
    Cardinality(terms) <= results_cap =>
        \A t \in terms : \E n \in 1..Len(response) : response[n].term = t

\* C16 as stated: for a query of at least two characters, if the records
\* whose lowercased term contains the lowercased query have at most 10
\* distinct terms, every one of these terms is the term of a hit.
C16_EveryContainingTermReturned ==
    (request.op = "autocomplete" /\ Len(request.arg) >= 2)
        => AllReturned(TermsContaining(term_index, lower(request.arg)))

\* C16, amended: for a query of at least two characters that is not all
\* whitespace, if the records whose lowercased term contains the query,
\* lowercased and stripped of leading and trailing whitespace, have at most
\* 10 distinct terms, every one of these terms is the term of a hit.
C16_EveryTermContainingNormalizedReturned ==
    (request.op = "autocomplete" /\ Len(request.arg) >= 2 /\ Normalized # <<>>)
        => AllReturned(TermsContaining(term_index, Normalized))

\* C16 witness: the query vata over the dataset of the scenario: both the
\* title and the longer term of the traditional system are hits.
C16_Witness ==
    /\ request.op = "autocomplete"
    /\ request.arg = <<"v", "a", "t", "a">>
    /\ TermsContaining(term_index, Normalized) = {VataVyadhi, VataVyadhiDisorder}
    /\ \E n, m \in 1..Len(response) :
          /\ response[n].term = VataVyadhi /\ response[n].lang = "ICD-11"
          /\ response[m].term = VataVyadhiDisorder /\ response[m].lang = "ayurveda"

\* the mapping request of the scenario: the record X1 titled Vata Vyadhi
\* over the candidates Vata Vyadhi Disorder and Kapha Roga of ayurveda
ScenarioMapped ==
    /\ request.op = "map_icd"
    /\ request.arg = "X1"
    /\ icd_data = icd_of(ScenarioEntries)
    /\ lang_dfs = dfs_of(ScenarioEntries)

\* C17 as stated: the request of the scenario returns a mapping to Vata
\* Vyadhi Disorder with a score of at least 80.
C17_ScenarioMapsToDisorder ==
    ScenarioMapped =>
        \E n \in 1..Len(response) :
            /\ response[n].lang = "ayurveda"
            /\ response[n].term = VataVyadhiDisorder
            /\ ScoreGE(response[n].score, 80)

\* C17, amended: the best candidate of the scenario is Vata Vyadhi Disorder
\* with the score 2200/31 (about 70.97), below 80, so the request returns
\* no mapping for ayurveda.
C17_ScenarioBelowThreshold ==
    ScenarioMapped =>
        /\ extractOne(RequestTitle, eng_terms_of(lang_dfs["ayurveda"]))
              = <<VataVyadhiDisorder, <<2200, 31>>>>
        /\ \A n \in 1..Len(response) : response[n].lang # "ayurveda"

\* C17 witness: the request of the scenario was answered.
C17_Witness == ScenarioMapped /\ locals.found /\ status = 200

\* the terms of the indexed records of the system lang
SystemTerms(idx, lang) ==
    UNION {{idx[e].bucket[b].term :
               b \in {c \in 1..Len(idx[e].bucket) : idx[e].bucket[c].lang = lang}} :
           e \in 1..Len(idx)}

\* the cells of the EnglishTerm column of df, an empty cell as the empty string
EnglishColumn(df) ==
    LET c == CHOOSE c \in 1..Len(df.columns) : df.columns[c] = EnglishTerm
    IN  {IF df.rows[r][c] = NaN THEN <<>> ELSE df.rows[r][c] : r \in 1..Len(df.rows)}

\* the mapping m names one of terms and no term of terms scores higher
BestAmong(m, title, terms) ==
    /\ m.term \in terms
    /\ \A t \in terms : ~ScoreLT(m.score, ratio(title, t))

\* C18 as stated: the candidates of a system are the terms of all its
\* records, English and local alike, so the term a mapping returns is the
\* best match among all of them.
C18_BestOverAllTermsOfSystem ==
    (request.op = "map_icd" /\ locals.found) =>
        \A n \in 1..Len(response) :
            BestAmong(response[n], RequestTitle,
                      SystemTerms(term_index, response[n].lang))

\* C18, amended: the candidates of a system are the cells of its EnglishTerm
\* column, so the term a mapping returns is the best match among these; the
\* local terms are not candidates.
C18_BestOverEnglishTermColumn ==
    (request.op = "map_icd" /\ locals.found) =>
        \A n \in 1..Len(response) :
            BestAmong(response[n], RequestTitle,
                      EnglishColumn(lang_dfs[response[n].lang]))

\* C18 witness: a mapping was returned for a system one of whose local terms
\* scores higher than the returned term.
C18_Witness ==
    /\ request.op = "map_icd"
    /\ locals.found
    /\ \E n \in 1..Len(response) :
          \E t \in SystemTerms(term_index, response[n].lang) :
              /\ t \notin EnglishColumn(lang_dfs[response[n].lang])
              /\ ScoreLT(response[n].score, ratio(RequestTitle, t))

\* C19: a non-empty string scores 100 against itself.
C19_SelfScoreIs100 ==
    (locals.op = "ratio" /\ request.a = request.b /\ request.a # <<>>)
        => locals.ab = <<100, 1>>

\* C19 witness: a string of several different characters was scored against
\* itself.
C19_Witness ==
    /\ locals.op = "ratio"
    /\ request.a = request.b
    /\ Cardinality(Range(request.a)) >= 2

\* C20: the score of a against b is the score of b against a.
C20_ScoreSymmetric == locals.op = "ratio" => locals.ab = locals.ba

\* C20 witness: two strings of different lengths that share some but not
\* all characters were scored.
C20_Witness ==
    /\ locals.op = "ratio"
    /\ Len(request.a) < Len(request.b)
    /\ ScoreGT(locals.ab, 0)
    /\ ~ScoreGE(locals.ab, 100)
    /\ Range(request.a) \ Range(request.b) # {}

\* C21: every autocomplete and every mapping request, on every dataset the
\* server has loaded, completes with a result and never with an error.
C21_RequestsNeverFail == request.op # "none" => status = 200

\* the fuzzy pass of the request ran
FuzzyPassRan ==
    /\ request.op = "autocomplete"
    /\ \E p \in 1..Len(locals.passes) : locals.passes[p] = "fuzzy"

\* the place of the key k in the key sequence of the index
KeyPos(k) == CHOOSE i \in 1..Len(term_index) : term_index[i].key = k

\* the key k1 scores higher against the query than k2, or the same and comes
\* earlier in the key sequence
KeyBefore(k1, k2) ==
    \/ ScoreLT(ratio(Normalized, k2), ratio(Normalized, k1))
    \/ /\ ratio(Normalized, k2) = ratio(Normalized, k1)
       /\ KeyPos(k1) < KeyPos(k2)

\* C22: after the fuzzy pass the matched keys are in descending order of
\* score, keys of equal score in key-sequence order, and the hits of a key
\* come before the hits of every key after it in that order.
C22_FuzzyHitsBestFirst ==
    FuzzyPassRan =>
        /\ \A i, j \in 1..Len(locals.matches) :
              i < j => KeyBefore(locals.matches[i], locals.matches[j])
        /\ \A n, m \in 1..Len(response) :
              (n < m /\ lower(response[n].term) # lower(response[m].term))
                  => KeyBefore(lower(response[n].term), lower(response[m].term))

\* C22 witness: a hit of a later key comes before a hit of an earlier,
\* lower-scoring key, and two matched keys have the same score.
C22_Witness ==
    /\ FuzzyPassRan
    /\ \E n, m \in 1..Len(response) :
          /\ n < m
          /\ KeyPos(lower(response[m].term)) < KeyPos(lower(response[n].term))
    /\ \E i, j \in 1..Len(locals.matches) :
          /\ i < j
          /\ ratio(Normalized, locals.matches[i]) = ratio(Normalized, locals.matches[j])

\* the terms of the records items
TermsOf(items) == {items[i].term : i \in 1..Len(items)}

\* hits hold, in order, the first 10 different terms of items, one hit each
FirstTenDistinct(hits, items, K) ==
    /\ Len(hits) = Min(Cardinality(TermsOf(items)), 10)
    /\ Cardinality(TermsOf(items)) >= 10 => Len(hits) = 10
    /\ \A n \in 1..Len(hits) : hits[n].term = items[NthOf(K, n)].term
    /\ \A n, m \in 1..Len(hits) : hits[n].term = hits[m].term => n = m

\* C23: the cap of 10 applies after deduplication: the hits are the first 10
\* of the deduplicated records of the matched buckets, so there are exactly
\* 10 hits whenever the matched buckets hold at least 10 different terms.
C23_CapAfterDeduplication ==
    request.op = "autocomplete" =>
        FirstTenDistinct(response, visited_items(term_index, locals.matches),
                         FirstOfTerm(visited_items(term_index, locals.matches)))

\* the first 10 of items repeat a term, and items hold 10 different terms
RepeatsBeforeCap(items) ==
    /\ Cardinality(TermsOf(items)) >= 10
    /\ Cardinality(TermsOf(Take(items, 10))) < 10

\* C23 witness: 10 hits were returned although the first 10 records of the
\* matched buckets hold fewer than 10 different terms.
C23_Witness ==
    /\ request.op = "autocomplete"
    /\ Len(response) = 10
    /\ RepeatsBeforeCap(visited_items(term_index, locals.matches))

\* the matched keys, and so the hits, follow the key sequence of the index
VisitedInLoadOrder ==
    /\ \A i, j \in 1..Len(locals.matches) :
          i < j => KeyPos(locals.matches[i]) < KeyPos(locals.matches[j])
    /\ \A n, m \in 1..Len(response) :
          n < m => KeyPos(lower(response[n].term)) <= KeyPos(lower(response[m].term))

\* C24 as stated: when the substring pass finds a key, the lowercased term of
\* every hit contains the lowercased query, and the matched keys are visited
\* in the insertion order of the index.
C24_HitsContainLowercasedQueryInLoadOrder ==
    SubstringPassFinds =>
        /\ \A n \in 1..Len(response) :
              Contains(lower(request.arg), lower(response[n].term))
        /\ VisitedInLoadOrder

\* C24, amended: when the substring pass finds a key, the lowercased term of
\* every hit contains the query, lowercased and stripped of leading and
\* trailing whitespace, and the matched keys are visited in the insertion
\* order of the index.
C24_HitsContainNormalizedQueryInLoadOrder ==
    SubstringPassFinds =>
        /\ \A n \in 1..Len(response) :
              Contains(Normalized, lower(response[n].term))
        /\ VisitedInLoadOrder

\* C24 witness: a query with leading whitespace matched several keys by
\* substring and several hits were returned.
C24_Witness ==
    /\ SubstringPassFinds
    /\ Normalized # lower(request.arg)
    /\ Len(locals.matches) >= 2
    /\ Len(response) >= 2

\* some candidate of cands scores at least 80 against title
BestReaches80(title, cands) ==
    \E i \in 1..Len(cands) : ScoreGE(ratio(title, cands[i]), 80)

\* C25: for a known id, every system whose best candidate scores at least 80
\* against the record's title has exactly one mapping in the response,
\* whatever the matched term is, the empty term included.
C25_NoQualifyingSystemOmitted ==
    (request.op = "map_icd" /\ request.arg # "" /\ has_icd_rec(icd_data, request.arg)) =>
        \A lang \in Range(csv_files) :
            BestReaches80(RequestTitle, eng_terms_of(lang_dfs[lang]))
                => Cardinality({n \in 1..Len(response) : response[n].lang = lang}) = 1

\* the places in load of the classification records with the term t
IcdPlaces(load, t) ==
    {i \in 1..Len(load) : load[i].lang = "ICD-11" /\ load[i].term = t}

\* the hit is made of the first record of places in load
HitOfFirstIcd(hit, load, places) ==
    /\ hit.lang = "ICD-11"
    /\ \E i \in places :
          /\ \A j \in places : i <= j
          /\ hit.icd_id = load[i].icd_id
          /\ hit.icd_code = load[i].icd_code

\* every hit whose term a classification record has is made of the first
\* such record
IcdRecordsWin(hits, load) ==
    \A n \in 1..Len(hits) :
        IcdPlaces(load, hits[n].term) # {}
            => HitOfFirstIcd(hits[n], load, IcdPlaces(load, hits[n].term))

\* C26: the hit of a term that occurs in the classification system and in a
\* traditional system carries the system ICD-11 and the id and code of the
\* classification record, which was loaded first.
C26_ClassificationRecordWins ==
    request.op = "autocomplete" =>
        IcdRecordsWin(response, load_sequence(icd_data, lang_dfs))

\* load holds the term t in a record of a traditional system too
AlsoTraditional(load, t) ==
    \E i \in 1..Len(load) : load[i].lang # "ICD-11" /\ load[i].term = t

\* C26 witness: a hit was returned for a term that a classification record
\* with an id and a record of a traditional system both have.
C26_Witness ==
    /\ request.op = "autocomplete"
    /\ \E n \in 1..Len(response) :
          /\ response[n].icd_id = "X1"
          /\ AlsoTraditional(load_sequence(icd_data, lang_dfs), response[n].term)

(***************************************************************************)
(* FastTMExtractor (src/ICD-11 tm2_codes+JSON_dataset /icd11.py)           *)
(*                                                                         *)
(* A URI is the sequence of its segments between the slashes. A JSON value *)
(* that the code tests with isinstance is tagged: Str(s) is a string of    *)
(* characters s, Dict(d) a dict d. Only the fields of entity_details that  *)
(* the statistics and the traversal read are kept.                         *)
(***************************************************************************)
Str(s) == [type |-> "str", s |-> s]

Dict(d) == [type |-> "dict", d |-> d]

\* the empty dict {}
EmptyDict == [k \in {} |-> 0]

\* d[k] = v
put(d, k, v) == [x \in DOMAIN d \cup {k} |-> IF x = k THEN v ELSE d[x]]

\* lines 155-159, extract_text_value: '@value', else 'en', else str(obj) of
\* a dict (the data hold no other dict than {} without these keys); a
\* string is returned as it is
extract_text_value(obj) ==
    IF obj.type = "dict"
    THEN IF get(obj.d, "@value", <<>>) # <<>> THEN obj.d["@value"]
         ELSE IF get(obj.d, "en", <<>>) # <<>> THEN obj.d["en"]
         ELSE <<"{", "}">>
    ELSE obj.s

\* some of the words occurs in text
AnyOf(words, text) == \E w \in words : Contains(w, text)

\* lines 119-153, detect_language, for unaccented text: the patterns with
\* diacritics cannot match it
detect_language(text) ==
    IF text = <<>> THEN "unknown"
    ELSE IF \/ AnyOf({<<"p", "i", "t", "t", "a">>, <<"k", "a", "p", "h", "a">>,
                      <<"a", "g", "n", "i">>}, lower(text))
            \/ \E pre \in {<<"p", "r", "a">>, <<"v", "i">>, <<"s", "a", "m">>,
                           <<"u", "p", "a">>, <<"n", "i">>} : StartsWith(lower(text), pre)
            \/ /\ Len(text) >= 3
               /\ SubSeq(lower(text), Len(text) - 2, Len(text)) = <<"t", "a", "m">>
    THEN "sanskrit"
    ELSE IF AnyOf({<<"a", "l", "-">>, <<"e", "l", "-">>, <<"d", "u", "b", "a", "y", "l", "a">>,
                   <<"k", "a", "b", "i", "d">>, <<"j", "i", "g", "a", "r">>}, lower(text))
    THEN "arabic_persian"
    ELSE IF AnyOf({<<"k", "a", "t", "t", "i">>, <<"v", "a", "l", "i">>,
                   <<"r", "o", "g", "a">>}, lower(text))
    THEN "tamil"
    ELSE "english_or_unknown"

\* lines 173-186: the term_data of the index terms with a non-blank label
RECURSIVE extract_index_terms_detailed(_)
extract_index_terms_detailed(index_terms) ==
    IF index_terms = <<>> THEN <<>>
    ELSE LET text == extract_text_value(get(Head(index_terms), "label", Dict(EmptyDict)))
         IN  (IF text # <<>> /\ strip(text) # <<>>
              THEN <<[text |-> strip(text), language |-> detect_language(text)]>>
              ELSE <<>>)
             \o extract_index_terms_detailed(Tail(index_terms))

\* lines 189-192: languages_detected counts each extracted term
RECURSIVE count_languages(_, _)
count_languages(detected, terms) ==
    IF terms = <<>> THEN detected
    ELSE count_languages(
             put(detected, Head(terms).language, get(detected, Head(terms).language, 0) + 1),
             Tail(terms))

\* entity_uri.split('/')[-1]
entity_id_of(entity_uri) == entity_uri[Len(entity_uri)]

\* lines 210-235: entity_details
entity_details_of(entity_uri, entity_data, depth, parent_path) ==
    [uri |-> entity_uri,
     id |-> entity_id_of(entity_uri),
     title |-> extract_text_value(get(entity_data, "title", Dict(EmptyDict))),
     code |-> extract_text_value(get(entity_data, "code", Dict(EmptyDict))),
     indexTerm |-> extract_index_terms_detailed(get(entity_data, "indexTerm", <<>>)),
     children |-> get(entity_data, "child", <<>>),
     isLeaf |-> Len(get(entity_data, "child", <<>>)) = 0,
     childCount |-> Len(get(entity_data, "child", <<>>)),
     depth |-> depth,
     parentPath |-> parent_path]

\* lines 39-61: the dataset and the processed set of a new FastTMExtractor
new_extractor ==
    [processed_entities |-> {},
     complete_dataset |->
        [metadata |-> [total_entities |-> 0, extraction_completed |-> FALSE],
         flat_entities |-> EmptyDict,
         code_index |-> EmptyDict,
         sanskrit_terms |-> EmptyDict,
         statistics |-> [total_disorders |-> 0, total_patterns |-> 0,
                         total_index_terms |-> 0, languages_detected |-> EmptyDict]]]

\* lines 243-250: the code index and the counts of disorders and patterns
index_code(ds, details) ==
    IF details.code # <<>>
    THEN [ds EXCEPT
            !.code_index = put(@, details.code, details.id),
            !.statistics.total_disorders =
                IF Contains(<<"d", "i", "s", "o", "r", "d", "e", "r">>, lower(details.title))
                THEN @ + 1 ELSE @,
            !.statistics.total_patterns =
                IF /\ ~Contains(<<"d", "i", "s", "o", "r", "d", "e", "r">>, lower(details.title))
                   /\ Contains(<<"p", "a", "t", "t", "e", "r", "n">>, lower(details.title))
                THEN @ + 1 ELSE @]
    ELSE ds

\* lines 253-260: the Sanskrit index terms, appended under the entity's code
RECURSIVE index_sanskrit(_, _, _, _)
index_sanskrit(sanskrit_terms, code, entity_id, index_terms) ==
    IF index_terms = <<>> THEN sanskrit_terms
    ELSE index_sanskrit(
             IF Head(index_terms).language = "sanskrit"
             THEN put(sanskrit_terms, code,
                      Append(get(sanskrit_terms, code, <<>>),
                             [term |-> Head(index_terms).text, entity_id |-> entity_id]))
             ELSE sanskrit_terms,
             code, entity_id, Tail(index_terms))

\* lines 239-263 given the new processed set: what the block holding
\* self.lock writes to the dataset
record_in_dataset(ds, processed, details) ==
    [index_code(ds, details) EXCEPT
        !.flat_entities = put(@, details.id, details),
        !.sanskrit_terms = index_sanskrit(@, details.code, details.id, details.indexTerm),
        !.statistics.total_index_terms = @ + Len(details.indexTerm),
        !.metadata.total_entities = Cardinality(processed)]

\* lines 238-263: the block holding self.lock
record_entity(x, details) ==
    [processed_entities |-> x.processed_entities \cup {details.id},
     complete_dataset |->
        record_in_dataset(x.complete_dataset, x.processed_entities \cup {details.id}, details)]

\* lines 188-192, inside line 220: the language counts of the extracted terms
count_extracted(x, details) ==
    [x EXCEPT !.complete_dataset.statistics.languages_detected =
                 count_languages(@, details.indexTerm)]

\* what a call of process_single_entity returns is a sequence: the empty
\* one for None, and the one of entity_details otherwise
ReturnedNone == <<>>

\* lines 205-206: the GET succeeds for a URI the API holds, if nothing fails
fetched(api, entity_uri, ok) == ok /\ entity_uri \in DOMAIN api

\* lines 204-283: fetch, extract, record; None when the GET raises
fetch_and_record(x, api, entity_uri, depth, parent_path, ok, details) ==
    IF fetched(api, entity_uri, ok)
    THEN [extractor |-> record_entity(count_extracted(x, details), details),
          result |-> <<details>>]
    ELSE [extractor |-> x, result |-> ReturnedNone]

\* process_single_entity without the test of lines 201-202
process_single_entity_unchecked(x, api, entity_uri, depth, parent_path, ok) ==
    fetch_and_record(x, api, entity_uri, depth, parent_path, ok,
        IF entity_uri \in DOMAIN api
        THEN entity_details_of(entity_uri, api[entity_uri], depth, parent_path)
        ELSE <<>>)

\* lines 195-283, process_single_entity: the extractor after the call and
\* what the call returns
process_single_entity(x, api, entity_uri, depth, parent_path, ok) ==
    IF entity_id_of(entity_uri) \in x.processed_entities
    THEN [extractor |-> x, result |-> ReturnedNone]
    ELSE fetch_and_record(x, api, entity_uri, depth, parent_path, ok,
             IF entity_uri \in DOMAIN api
             THEN entity_details_of(entity_uri, api[entity_uri], depth, parent_path)
             ELSE <<>>)

(***************************************************************************)
(* What the ICD-11 API holds                                               *)
(***************************************************************************)
UriA == <<"mms", "A">>

UriB == <<"mms", "B">>

UriC == <<"mms", "C">>

\* another URI of the entity A
UriFoundationA == <<"foundation", "A">>

Uris == {UriA, UriB, UriC, UriFoundationA}

\* the child lists an entity may have
ChildLists == {<<>>, <<UriA>>, <<UriB>>, <<UriB, UriC>>, <<UriC, UriA>>}

\* the entity A: a coded disorder with a Sanskrit and an English index term
DataA(child) ==
    [title |-> Dict("@value" :> <<"D", "i", "s", "o", "r", "d", "e", "r">>),
     code |-> Str(<<"T", "1">>),
     indexTerm |-> <<[label |-> Dict("@value" :> <<"a", "g", "n", "i">>)],
                     [label |-> Dict("@value" :> <<"x">>)]>>,
     child |-> child]

\* the entity B: a pattern with no code and no index term
DataB(child) ==
    [title |-> Dict("@value" :> <<"P", "a", "t", "t", "e", "r", "n">>), child |-> child]

\* the entity C: an empty code, a Sanskrit index term and a blank one
DataC(child) ==
    [title |-> Dict("@value" :> <<"O", "t", "h", "e", "r">>),
     code |-> Str(<<>>),
     indexTerm |-> <<[label |-> Dict("@value" :> <<"p", "i", "t", "t", "a">>)],
                     [label |-> Dict("@value" :> <<" ">>)]>>,
     child |-> child]

\* the API whose entities A, B, C have these child lists
api_of(a, b, c) ==
    (UriA :> DataA(a)) @@ (UriB :> DataB(b)) @@ (UriC :> DataC(c))
    @@ (UriFoundationA :> DataA(a))

Apis == {api_of(a, b, c) : a, b, c \in ChildLists}

\* src/portal.py and the page extraction are not running
OnlyExtractorRuns ==
    /\ icd_data = NotRun /\ lang_dfs = NotRun /\ term_index = NotRun
    /\ request = NotRun /\ response = NotRun /\ status = NotRun /\ locals = NotRun
    /\ page_loop = NotRun

(***************************************************************************)
(* Sequential calls of process_single_entity                               *)
(***************************************************************************)
InitCalls ==
    /\ OnlyExtractorRuns
    /\ extractor = new_extractor
    /\ who_api \in Apis
    /\ workers = [entity_uri |-> <<>>]
    /\ returned = ReturnedNone

\* the call ends in the state and with the result out
Returns(out) == extractor' = out.extractor /\ returned' = out.result

\* extractor.process_single_entity(entity_uri), the GET failing if not ok
ProcessSingleEntity(entity_uri, ok) ==
    /\ Returns(process_single_entity(extractor, who_api, entity_uri, 0, <<>>, ok))
    /\ workers' = [entity_uri |-> entity_uri]
    /\ UNCHANGED <<who_api, page_loop>>
    /\ UNCHANGED portal_vars

NextCalls == \E entity_uri \in Uris, ok \in BOOLEAN : ProcessSingleEntity(entity_uri, ok)

SpecCalls == InitCalls /\ [][NextCalls]_vars

\* total_entities is the number of processed ids and of flat entities
TotalsAgree ==
    /\ extractor.complete_dataset.metadata.total_entities
          = Cardinality(extractor.processed_entities)
    /\ extractor.complete_dataset.metadata.total_entities
          = Cardinality(DOMAIN extractor.complete_dataset.flat_entities)

\* a call for an id that is already processed returns None and leaves the
\* extractor as it was
RepeatedCallIsNoOp ==
    entity_id_of(workers'.entity_uri) \in extractor.processed_entities
        => (returned' = ReturnedNone /\ extractor' = extractor)

\* C27: after any sequence of sequential process_single_entity calls,
\* total_entities equals the size of processed_entities and the number of
\* keys of flat_entities; a call for an id already in processed_entities
\* returns None and changes neither the dataset nor the statistics.
C27_TotalsAgreeAndRepeatsAreNoOps == []TotalsAgree /\ [][RepeatedCallIsNoOp]_vars

\* C27 witness: two entities are processed and the last call, for another
\* URI of a processed entity, returned None.
C27_Witness ==
    /\ workers = [entity_uri |-> UriFoundationA]
    /\ returned = ReturnedNone
    /\ "A" \in extractor.processed_entities
    /\ UriA \in {extractor.complete_dataset.flat_entities[id].uri :
                    id \in DOMAIN extractor.complete_dataset.flat_entities}
    /\ extractor.complete_dataset.metadata.total_entities = 2

(***************************************************************************)
(* extract_all_tm_entities_recursive (icd11.py lines 285-307)              *)
(*                                                                         *)
(* workers holds the call stack of recursive_worker, the innermost call    *)
(* last. A frame at "enter" is at line 290, a frame at "children" is in    *)
(* the loop of line 301 with the children todo still to visit.             *)
(***************************************************************************)
\* the largest max_depth the extraction is started with
MaxDepthArg == 2

\* line 290 with the test off by one
too_deep_off_by_one(depth, max_depth) == depth > max_depth + 1

\* line 290
too_deep(depth, max_depth) == depth > max_depth

\* the frame of recursive_worker(uri, depth, parent_path) at its first line
frame_of(uri, depth, parent_path) ==
    [pc |-> "enter", uri |-> uri, depth |-> depth, parent_path |-> parent_path]

\* the innermost frame
top_frame == workers.stack[Len(workers.stack)]

\* the stack without its innermost frame
popped == SubSeq(workers.stack, 1, Len(workers.stack) - 1)

\* extract_all_tm_entities_recursive(start_uri, max_depth) has just called
\* recursive_worker(start_uri) (line 306)
InitRecursive ==
    /\ OnlyExtractorRuns
    /\ extractor = new_extractor
    /\ who_api \in Apis
    /\ \E max_depth \in 0..MaxDepthArg :
          workers = [max_depth |-> max_depth, finished |-> FALSE,
                     stack |-> <<frame_of(UriA, 0, <<>>)>>]
    /\ returned = ReturnedNone

\* lines 293-298 for the result out of process_single_entity: return if
\* there is no entity, else start the loop over its children
EnterWith(out) ==
    /\ Returns(out)
    /\ workers' =
          [workers EXCEPT !.stack =
              IF out.result = ReturnedNone THEN popped
              ELSE Append(popped,
                      [pc |-> "children", uri |-> top_frame.uri, depth |-> top_frame.depth,
                       todo |-> out.result[1].children,
                       current_path |-> top_frame.parent_path \o <<out.result[1].id>>])]

\* lines 290-298: one call of recursive_worker up to its loop
RecursiveWorkerEnter(ok) ==
    /\ workers.stack # <<>>
    /\ top_frame.pc = "enter"
    /\ IF too_deep(top_frame.depth, workers.max_depth)
       THEN /\ workers' = [workers EXCEPT !.stack = popped]
            /\ UNCHANGED <<extractor, returned>>
       ELSE EnterWith(process_single_entity(extractor, who_api, top_frame.uri,
                                            top_frame.depth, top_frame.parent_path, ok))
    /\ UNCHANGED <<who_api, page_loop>>
    /\ UNCHANGED portal_vars

\* lines 301-302: the loop calls recursive_worker for the next child, or
\* the call returns after the last one
RecursiveWorkerChildren ==
    /\ workers.stack # <<>>
    /\ top_frame.pc = "children"
    /\ workers' =
          [workers EXCEPT !.stack =
              IF top_frame.todo = <<>> THEN popped
              ELSE Append(popped, [top_frame EXCEPT !.todo = Tail(@)])
                   \o <<frame_of(Head(top_frame.todo), top_frame.depth + 1,
                                 top_frame.current_path)>>]
    /\ UNCHANGED <<extractor, who_api, returned, page_loop>>
    /\ UNCHANGED portal_vars

\* line 307: return True
ReturnTrue ==
    /\ workers.stack = <<>>
    /\ ~workers.finished
    /\ workers' = [workers EXCEPT !.finished = TRUE]
    /\ UNCHANGED <<extractor, who_api, returned, page_loop>>
    /\ UNCHANGED portal_vars

NextRecursive ==
    \/ \E ok \in BOOLEAN : RecursiveWorkerEnter(ok)
    \/ RecursiveWorkerChildren
    \/ ReturnTrue

\* the interpreter keeps running the one thread of the extraction
SpecRecursive == InitRecursive /\ [][NextRecursive]_vars /\ WF_vars(NextRecursive)

\* no entity was processed at a depth above max_depth
NoneTooDeep ==
    \A id \in DOMAIN extractor.complete_dataset.flat_entities :
        extractor.complete_dataset.flat_entities[id].depth <= workers.max_depth

\* C28: extract_all_tm_entities_recursive returns on every graph of child
\* links, with cycles and shared children as well, and processes no entity
\* at a depth greater than max_depth.
C28_TerminatesWithinMaxDepth == <>(workers.finished) /\ []NoneTooDeep

\* C28 witness: the extraction returned for max_depth 1 on a graph in which
\* A and B share the child C and both B and C link back to A; C was reached
\* too deep below B and processed as a child of A.
C28_Witness ==
    /\ workers.finished
    /\ workers.max_depth = 1
    /\ who_api = api_of(<<UriB, UriC>>, <<UriC, UriA>>, <<UriA>>)
    /\ extractor.processed_entities = {"A", "B", "C"}
    /\ extractor.complete_dataset.flat_entities["C"].parentPath = <<"A">>

(***************************************************************************)
(* Two threads in process_single_entity (icd11.py lines 195-283)           *)
(*                                                                         *)
(* workers maps a thread to its frame. A thread at "check" is at line 201, *)
(* at "fetch" at line 205, at "record" before the block of line 238. The   *)
(* blocks that hold self.lock are single steps.                            *)
(***************************************************************************)
Threads == {1, 2}

\* both threads have been handed a URI and are about to run line 201
InitThreads ==
    /\ OnlyExtractorRuns
    /\ extractor = new_extractor
    /\ who_api = api_of(<<>>, <<>>, <<>>)
    /\ workers \in [Threads -> {[pc |-> "check", entity_uri |-> u, details |-> <<>>] : u \in Uris}]
    /\ returned = [t \in Threads |-> ReturnedNone]

\* lines 200-202: return None for a processed id, else go on to the GET
CheckProcessed(t) ==
    /\ workers[t].pc = "check"
    /\ workers' = [workers EXCEPT ![t].pc =
                      IF entity_id_of(workers[t].entity_uri) \in extractor.processed_entities
                      THEN "done" ELSE "fetch"]
    /\ UNCHANGED <<extractor, who_api, returned, page_loop>>
    /\ UNCHANGED portal_vars

\* the thread t holds details, whose languages are counted (lines 189-192)
Extracted(t, details) ==
    /\ workers' = [workers EXCEPT ![t].pc = "record", ![t].details = <<details>>]
    /\ extractor' = count_extracted(extractor, details)

\* lines 205-235: the GET and the extraction of entity_details; line 283
\* when the GET raises
FetchEntity(t, ok) ==
    /\ workers[t].pc = "fetch"
    /\ IF fetched(who_api, workers[t].entity_uri, ok)
       THEN Extracted(t, entity_details_of(workers[t].entity_uri,
                                           who_api[workers[t].entity_uri], 0, <<>>))
       ELSE /\ workers' = [workers EXCEPT ![t].pc = "done"]
            /\ UNCHANGED extractor
    /\ UNCHANGED <<who_api, returned, page_loop>>
    /\ UNCHANGED portal_vars

\* lines 238-279: the block holding self.lock, then return entity_details
RecordEntity(t) ==
    /\ workers[t].pc = "record"
    /\ extractor' = record_entity(extractor, workers[t].details[1])
    /\ workers' = [workers EXCEPT ![t].pc = "done"]
    /\ returned' = [returned EXCEPT ![t] = workers[t].details]
    /\ UNCHANGED <<who_api, page_loop>>
    /\ UNCHANGED portal_vars

NextThreads ==
    \E t \in Threads :
        \/ CheckProcessed(t)
        \/ \E ok \in BOOLEAN : FetchEntity(t, ok)
        \/ RecordEntity(t)

SpecThreads == InitThreads /\ [][NextThreads]_vars

\* the number of index terms of the entities ids of flat
RECURSIVE IndexTermsOf(_, _)
IndexTermsOf(flat, ids) ==
    IF ids = {} THEN 0
    ELSE LET id == CHOOSE i \in ids : TRUE
         IN  Len(flat[id].indexTerm) + IndexTermsOf(flat, ids \ {id})

\* every recorded entity is counted once in the statistics ds
CountedOnce(ds) ==
    /\ ds.statistics.total_index_terms = IndexTermsOf(ds.flat_entities, DOMAIN ds.flat_entities)
    /\ ds.statistics.total_disorders + ds.statistics.total_patterns
          <= Cardinality(DOMAIN ds.flat_entities)
    /\ \A code \in DOMAIN ds.sanskrit_terms :
          \A i, j \in 1..Len(ds.sanskrit_terms[code]) :
              ds.sanskrit_terms[code][i] = ds.sanskrit_terms[code][j] => i = j

\* C29: when two threads call process_single_entity for the same URI, the
\* entity is recorded once: its index terms, its disorder or pattern and its
\* Sanskrit terms are added to the statistics at most once.
C29_SameUriRecordedOnce ==
    workers[1].entity_uri = workers[2].entity_uri
        => CountedOnce(extractor.complete_dataset)

(***************************************************************************)
(* The page loop of extract_pages_1042_1330                                *)
(* (src/Micro-service/extract_all_pages_1042_1330.py lines 190-282)        *)
(***************************************************************************)
\* range(1042, 1331) of line 214
first_page == 1042

end_page == 1331

\* only the first MaxTroubled pages of a run meet a failure
MaxTroubled == 2

\* the page may meet a failure in this run
troubled(page) == page < first_page + MaxTroubled

\* lines 190-192 and 214: the driver is set up and the loop is about to start
InitPages ==
    /\ icd_data = NotRun /\ lang_dfs = NotRun /\ term_index = NotRun
    /\ request = NotRun /\ response = NotRun /\ status = NotRun /\ locals = NotRun
    /\ ExtractorNotRun
    /\ page_loop = [current_page |-> first_page, all_extracted_data |-> <<>>,
                    successful_pages |-> <<>>, failed_pages |-> <<>>,
                    finished |-> FALSE, total_processed |-> 0]

\* lines 215-274: one iteration of the loop; navigated is what
\* navigate_to_specific_page returns, page_data what extract_all_page_data
\* returns, and the write of the progress file (lines 248-249) raises unless
\* progress_written
after_page(loop, navigated, page_data, progress_written) ==
    [loop EXCEPT
        !.current_page = @ + 1,
        !.all_extracted_data = IF navigated THEN @ \o page_data ELSE @,
        !.successful_pages =
            IF navigated /\ page_data # <<>> THEN Append(@, loop.current_page) ELSE @,
        !.failed_pages =
            IF ~navigated \/ page_data = <<>> THEN Append(@, loop.current_page)
            ELSE IF ~progress_written THEN Append(@, loop.current_page)
            ELSE @]

\* the rows extract_all_page_data may return for a page: none, or one
PageData(page) == {<<>>, <<[page_number |-> page, row_index |-> 1]>>}

\* one iteration of the loop of line 214
ProcessPage(navigated, page_data, progress_written) ==
    /\ page_loop.current_page < end_page
    /\ troubled(page_loop.current_page)
          \/ (navigated /\ page_data # <<>> /\ progress_written)
    /\ page_loop' = after_page(page_loop, navigated, page_data, progress_written)
    /\ UNCHANGED extractor_vars
    /\ UNCHANGED portal_vars

\* lines 277-282: the loop is over and the summary is printed
PrintSummary ==
    /\ page_loop.current_page = end_page
    /\ ~page_loop.finished
    /\ page_loop' = [page_loop EXCEPT
          !.finished = TRUE,
          !.total_processed = Len(page_loop.successful_pages) + Len(page_loop.failed_pages)]
    /\ UNCHANGED extractor_vars
    /\ UNCHANGED portal_vars

NextPages ==
    \/ \E navigated, progress_written \in BOOLEAN :
          \E page_data \in PageData(page_loop.current_page) :
              ProcessPage(navigated, page_data, progress_written)
    \/ PrintSummary

SpecPages == InitPages /\ [][NextPages]_vars

\* C30: when the page loop has finished, every page from 1042 to 1330 is in
\* exactly one of successful_pages and failed_pages, and the reported total
\* of the two lengths is 289.
C30_EveryPageInExactlyOneList ==
    page_loop.finished =>
        /\ \A page \in 1042..1330 :
              (page \in Range(page_loop.successful_pages))
                  # (page \in Range(page_loop.failed_pages))
        /\ page_loop.total_processed = 289

====
